---- MODULE Spec2Model ----
(***************************************************************************)
(* zipexcept: tar/zip archives of a directory tree, minus the entries that *)
(* match the patterns of a .tarignore file (src/zipexcept/main.py).        *)
(*                                                                         *)
(* Strings are sequences of one-character strings, so that strip,          *)
(* startswith, endswith and glob matching are computed as the code         *)
(* computes them.  A path is the sequence of its components (each a        *)
(* string); <<>> is the filesystem root "/".                               *)
(***************************************************************************)
EXTENDS Integers, Sequences, FiniteSets, TLC

VARIABLES
    fs,               \* the filesystem: [dirs, files], sets of absolute paths
    tarignore,        \* the ignore file: [exists, lines]
    args,             \* create_archive's arguments
    pc,               \* position of the create_archive run
    ignore_patterns,  \* create_archive: ignore_patterns
    stack,            \* collect_files: directories os.walk still has to list
    files_to_include, \* collect_files: files_to_include
    to_write,         \* create_archive: files the write loop has not reached yet
    archive,          \* the destination archive: [opened, closed, entries]
    exit_code,        \* process exit status; -1 while running
    evaluated,        \* history: paths should_exclude was called on in this run
    listed,           \* history: directories os.walk listed in this run
    run,              \* which of the two successive runs this is
    prev,             \* history: the first run's FileSet and archive names
    call,             \* one call of should_exclude: arguments and result
    cli               \* main(): the parsed arguments and the name passed on

vars == <<fs, tarignore, args, pc, ignore_patterns, stack, files_to_include,
          to_write, archive, exit_code, evaluated, listed, run, prev, call, cli>>

runVars == <<fs, tarignore, args, pc, ignore_patterns, stack, files_to_include,
             to_write, archive, exit_code, evaluated, listed, run, prev>>

----------------------------------------------------------------------------
(* Bounds *)

\* longest ignore file, in lines
MaxLines == 2
\* longest pattern list handed to should_exclude directly
MaxPatterns == 2
\* longest output name given on the command line, in pieces
MaxPieces == 3

----------------------------------------------------------------------------
(* Sequences and strings *)

Range(s) == {s[i] : i \in 1..Len(s)}

SeqsUpTo(S, n) == UNION {[1..k -> S] : k \in 0..n}

\* str.startswith / str.endswith
startswith(s, p) == Len(p) <= Len(s) /\ SubSeq(s, 1, Len(p)) = p

endswith(s, p) == Len(p) <= Len(s) /\ SubSeq(s, Len(s) - Len(p) + 1, Len(s)) = p

\* the characters str.strip() removes
Whitespace == {" ", "\t", "\n", "\r"}

RECURSIVE lstrip(_)
lstrip(s) == IF s # <<>> /\ Head(s) \in Whitespace THEN lstrip(Tail(s)) ELSE s

RECURSIVE rstrip(_)
rstrip(s) ==
    IF s # <<>> /\ s[Len(s)] \in Whitespace
    THEN rstrip(SubSeq(s, 1, Len(s) - 1))
    ELSE s

strip(s) == rstrip(lstrip(s))

----------------------------------------------------------------------------
(* Paths *)

\* os.path.join(root, name)
join(root, name) == Append(root, name)

\* os.path.dirname of an absolute path; dirname("/") = "/"
dirname(path) == IF path = <<>> THEN <<>> ELSE SubSeq(path, 1, Len(path) - 1)

\* os.path.basename; basename("/") = ""
basename(path) == IF path = <<>> THEN <<>> ELSE path[Len(path)]

\* os.sep.join(components)
RECURSIVE sepjoin(_)
sepjoin(parts) ==
    IF parts = <<>> THEN <<>>
    ELSE IF Len(parts) = 1 THEN parts[1]
    ELSE parts[1] \o <<"/">> \o sepjoin(Tail(parts))

\* len(os.path.commonprefix([start_list, path_list]))
RECURSIVE commonlen(_, _)
commonlen(a, b) ==
    IF a # <<>> /\ b # <<>> /\ Head(a) = Head(b)
    THEN 1 + commonlen(Tail(a), Tail(b))
    ELSE 0

\* os.path.relpath(path, start), both absolute: the string that results
relpath(path, start) ==
    LET i == commonlen(start, path)
        rel_list == [k \in 1..(Len(start) - i) |-> <<".", ".">>]
                    \o SubSeq(path, i + 1, Len(path))
    IN  IF rel_list = <<>> THEN <<".">> ELSE sepjoin(rel_list)

isdir(path) == path \in fs.dirs

isfile(path) == path \in fs.files

exists(path) == isdir(path) \/ isfile(path)

----------------------------------------------------------------------------
(* fnmatch.fnmatch on POSIX (normcase is the identity there): the pattern  *)
(* language of fnmatch.translate -- '*', '?', '[seq]', '[!seq]' -- matched *)
(* against the whole name.  '*' and '?' also match '/'.                    *)

\* the index of the ']' that closes the '[' at p[j], or 0 when there is
\* none (the '[' is then a literal): a leading '!' and a ']' right after it
\* belong to the class
RECURSIVE scanclose(_, _)
scanclose(p, k) ==
    IF k > Len(p) THEN 0 ELSE IF p[k] = "]" THEN k ELSE scanclose(p, k + 1)

classend(p, j) ==
    LET j1 == IF j + 1 <= Len(p) /\ p[j + 1] = "!" THEN j + 2 ELSE j + 1
        j2 == IF j1 <= Len(p) /\ p[j1] = "]" THEN j1 + 1 ELSE j1
    IN  scanclose(p, j2)

\* whether character c is in the class p[j+1 .. e-1]
inclass(c, p, j, e) ==
    LET neg   == p[j + 1] = "!"
        first == IF neg THEN j + 2 ELSE j + 1
        hit   == \E k \in first..(e - 1) : p[k] = c
    IN  IF neg THEN ~hit ELSE hit

RECURSIVE fnmatchfrom(_, _, _, _)
fnmatchfrom(s, i, p, j) ==
    IF j > Len(p) THEN i > Len(s)
    ELSE IF p[j] = "*"
         THEN fnmatchfrom(s, i, p, j + 1)
              \/ (i <= Len(s) /\ fnmatchfrom(s, i + 1, p, j))
    ELSE IF p[j] = "?"
         THEN i <= Len(s) /\ fnmatchfrom(s, i + 1, p, j + 1)
    ELSE IF p[j] = "[" /\ classend(p, j) # 0
         THEN i <= Len(s) /\ inclass(s[i], p, j, classend(p, j))
              /\ fnmatchfrom(s, i + 1, p, classend(p, j) + 1)
    ELSE i <= Len(s) /\ s[i] = p[j] /\ fnmatchfrom(s, i + 1, p, j + 1)

fnmatch(name, pat) == fnmatchfrom(name, 1, pat, 1)

----------------------------------------------------------------------------
(* should_exclude *)

\* the loop body without the os.path.isdir test of line 47: what a directory
\* pattern would exclude if it were matched like any glob
pattern_excludes_nodircheck(pattern, path, rel_path, filename) ==
    IF pattern = <<>> THEN FALSE
    ELSE IF endswith(pattern, <<"/">>)
         THEN fnmatch(rel_path, SubSeq(pattern, 1, Len(pattern) - 1) \o <<"*">>)
    ELSE IF "*" \in Range(pattern) \/ "?" \in Range(pattern) \/ "[" \in Range(pattern)
         THEN fnmatch(rel_path, pattern) \/ fnmatch(filename, pattern)
    ELSE rel_path = pattern \/ filename = pattern

\* lines 41-58, the loop body for one pattern: TRUE when it returns True
pattern_excludes(pattern, path, rel_path, filename) ==
    IF pattern = <<>> THEN FALSE
    ELSE IF endswith(pattern, <<"/">>)
         THEN isdir(path)
              /\ fnmatch(rel_path, SubSeq(pattern, 1, Len(pattern) - 1) \o <<"*">>)
    ELSE IF "*" \in Range(pattern) \/ "?" \in Range(pattern) \/ "[" \in Range(pattern)
         THEN fnmatch(rel_path, pattern) \/ fnmatch(filename, pattern)
    ELSE rel_path = pattern \/ filename = pattern

\* the for loop from pattern k on, with its early return
RECURSIVE should_exclude_from(_, _, _, _)
should_exclude_from(path, base_dir, patterns, k) ==
    IF k > Len(patterns) THEN FALSE
    ELSE IF pattern_excludes(patterns[k], path, relpath(path, base_dir), basename(path))
         THEN TRUE
    ELSE should_exclude_from(path, base_dir, patterns, k + 1)

should_exclude(path, base_dir, patterns) ==
    should_exclude_from(path, base_dir, patterns, 1)

----------------------------------------------------------------------------
(* The tree the runs start from: the tests' tree (setUp), with short names *)
(*   /t            the source directory          (test_dir)                *)
(*   /t/a          a file no pattern names       (include_file.txt)        *)
(*   /t/b.l        a file '*.l' matches          (exclude_file.log)        *)
(*   /t/x          a directory 'x/' matches      (exclude_dir)             *)
(*   /t/x/a, /t/x/y/c   files beneath it                                   *)
(*   /t/m, /t/m/a, /t/m/b.l                      (mixed_dir)               *)
(*   /o            a directory outside the source tree                     *)
(*   /f            a regular file                                          *)

T == <<"t">>
A == <<"a">>
BL == <<"b", ".", "l">>
X == <<"x">>
Y == <<"y">>
C == <<"c">>
M == <<"m">>
O == <<"o">>
F == <<"f">>
N == <<"n">>
Z == <<"z">>

TreeDirs == {<<>>, <<T>>, <<T, X>>, <<T, X, Y>>, <<T, M>>, <<O>>}

TreeFiles == {<<T, A>>, <<T, BL>>, <<T, X, A>>, <<T, X, Y, C>>,
              <<T, M, A>>, <<T, M, BL>>, <<F>>}

Tree == [dirs |-> TreeDirs, files |-> TreeFiles]

\* os.scandir(top): the names of the directories and of the files in top
subdirs(top) == {d \in fs.dirs : d # <<>> /\ dirname(d) = top}

subfiles(top) == {f \in fs.files : dirname(f) = top}

\* whether path lies strictly beneath directory d
beneath(path, d) == Len(path) > Len(d) /\ SubSeq(path, 1, Len(d)) = d

----------------------------------------------------------------------------
(* Idle values of the variables a specification does not use *)

NoCall == [path |-> <<>>, base_dir |-> <<>>, patterns |-> <<>>,
           returned |-> FALSE, result |-> FALSE]

NoCli == [output |-> <<>>, format |-> "tar", compress |-> FALSE,
          passed |-> <<>>, times |-> 0]

NoArgs == [archive_name |-> <<>>, archive_type |-> "tar", source_dir |-> <<>>,
           tarignore_path |-> "", compress |-> FALSE]

NoArchive == [opened |-> FALSE, closed |-> FALSE, mode |-> "", entries |-> {}]

NoPrev == [files |-> {}, entries |-> {}]

RunIdle ==
    /\ fs = Tree
    /\ tarignore = [exists |-> FALSE, lines |-> <<>>]
    /\ args = NoArgs
    /\ pc = "idle"
    /\ ignore_patterns = <<>>
    /\ stack = <<>>
    /\ files_to_include = {}
    /\ to_write = {}
    /\ archive = NoArchive
    /\ exit_code = -1
    /\ evaluated = {}
    /\ listed = {}
    /\ run = 1
    /\ prev = NoPrev

----------------------------------------------------------------------------
(* SpecExclude: should_exclude as a function of its arguments              *)

\* the patterns of the direct calls: the three kinds, the empty pattern,
\* and patterns that are of two kinds at once
CallPatterns == {
    <<>>,
    <<"*", ".", "l">>,
    <<"x", "/">>,
    <<"x">>,
    <<"m", "/", "a">>,
    <<"?">>,
    <<"[", "a", "b", "]">>,
    <<"[", "!", "a", "]", "*">>,
    <<"*", "/">>,
    <<"[">>,
    <<".", ".", "/", "*">>,
    <<"b", ".", "l">> }

\* (path, base_dir) of the direct calls: paths beneath the base, the base
\* itself, paths outside it (relative path through '..'), a missing path
CallPaths == TreeDirs \cup TreeFiles \cup {<<T, N>>, <<T, X, M>>}

CallBases == {<<T>>, <<T, M>>, <<>>}

InitExclude ==
    /\ RunIdle
    /\ cli = NoCli
    /\ call \in [path : CallPaths, base_dir : CallBases,
                 patterns : SeqsUpTo(CallPatterns, MaxPatterns),
                 returned : {FALSE}, result : {FALSE}]

CallShouldExclude ==
    /\ ~call.returned
    /\ call' = [call EXCEPT !.returned = TRUE,
                            !.result = should_exclude(call.path, call.base_dir,
                                                      call.patterns)]
    /\ UNCHANGED <<runVars, cli>>

NextExclude == CallShouldExclude

SpecExclude == InitExclude /\ [][NextExclude]_vars

\* the three kinds of pattern, as the specification words them
IsDirectoryPattern(p) == p # <<>> /\ p[Len(p)] = "/"

IsWildcardPattern(p) == \E k \in 1..Len(p) : p[k] \in {"*", "?", "["}

\* whether pattern p matches path under the rule of (each of) its kind(s)
MatchesUnderKind(p, path, base_dir) ==
    LET rel == relpath(path, base_dir)
        name == basename(path)
    IN  \/ /\ IsDirectoryPattern(p)
           /\ path \in fs.dirs
           /\ fnmatch(rel, SubSeq(p, 1, Len(p) - 1) \o <<"*">>)
        \/ /\ IsWildcardPattern(p)
           /\ (fnmatch(rel, p) \/ fnmatch(name, p))
        \/ /\ ~IsDirectoryPattern(p)
           /\ ~IsWildcardPattern(p)
           /\ (rel = p \/ name = p)

\* C1: should_exclude returns true exactly when at least one non-empty
\* pattern of the list matches under its kind's rule (directory pattern:
\* the path is a directory and its relative path glob-matches the pattern
\* without the slash followed by '*'; wildcard pattern: the glob matches the
\* relative path or the bare filename; any other pattern: equality with the
\* relative path or the bare filename).  The right-hand side reads only the
\* set of patterns, so neither their order nor duplicates matter.
C1_ShouldExcludeIffSomePatternMatches ==
    call.returned =>
        (call.result <=>
            \E p \in Range(call.patterns) :
                p # <<>> /\ MatchesUnderKind(p, call.path, call.base_dir))

\* a call on a list of two different patterns of which only the second
\* matches, and a call on a file whose relative path a directory pattern's
\* glob matches (so that only the directory test keeps it)
C1_Witness ==
    /\ call.returned
    /\ call.result
    /\ Len(call.patterns) = 2
    /\ call.patterns[1] # <<>>
    /\ ~MatchesUnderKind(call.patterns[1], call.path, call.base_dir)
    /\ IsDirectoryPattern(call.patterns[2])

----------------------------------------------------------------------------
(* read_tarignore *)

\* the loop body with the comment test made on the line as read, before it
\* is stripped
pattern_of_line_rawcomment(line) ==
    IF strip(line) # <<>> /\ ~startswith(line, <<"#">>) THEN <<strip(line)>> ELSE <<>>

\* lines 27-30, the loop body for one line: the pattern it appends, if any
pattern_of_line(line) ==
    LET stripped == strip(line)
    IN  IF stripped # <<>> /\ ~startswith(stripped, <<"#">>)
        THEN <<stripped>>
        ELSE <<>>

\* the loop over the lines of the file, in file order
RECURSIVE read_lines(_)
read_lines(lines) ==
    IF lines = <<>> THEN <<>>
    ELSE pattern_of_line(Head(lines)) \o read_lines(Tail(lines))

read_tarignore(file) == IF ~file.exists THEN <<>> ELSE read_lines(file.lines)

----------------------------------------------------------------------------
(* Spec: create_archive, run twice in succession with the same arguments   *)

\* the lines an ignore file is made of: a wildcard pattern, a directory
\* pattern, a comment, a blank line, a pattern with blanks around it, and a
\* comment that starts with a blank
IgnoreLines == {
    <<"*", ".", "l", "\n">>,
    <<"x", "/", "\n">>,
    <<"#", "c", "\n">>,
    <<"\n">>,
    <<" ", "a", " ", "\n">>,
    <<" ", "#", "\n">> }

\* the source paths: the tree, a directory in it, a regular file, a path
\* that does not exist
Sources == {<<T>>, <<T, M>>, <<F>>, <<N>>}

\* the output paths: inside the source tree (as the tests have it), outside
\* it, and in a directory that does not exist
Outputs == {<<T, Z>>, <<O, Z>>, <<N, Z>>}

\* main always passes an ignore-file path and the tests pass one too; the
\* call without one (the parameter's default) is kept for one archive type.
\* compress is read for tar archives only.
Init ==
    /\ fs = Tree
    /\ tarignore \in {[exists |-> FALSE, lines |-> <<>>]}
                     \cup {[exists |-> TRUE, lines |-> l] :
                              l \in SeqsUpTo(IgnoreLines, MaxLines)}
    /\ args \in {a \in [archive_name : Outputs, archive_type : {"tar", "zip"},
                        source_dir : Sources, tarignore_path : {"", ".tarignore"},
                        compress : BOOLEAN] :
                    /\ a.compress => a.archive_type = "tar"
                    /\ a.tarignore_path = "" => a.archive_type = "tar" /\ ~a.compress}
    /\ pc = "start"
    /\ ignore_patterns = <<>>
    /\ stack = <<>>
    /\ files_to_include = {}
    /\ to_write = {}
    /\ archive = NoArchive
    /\ exit_code = -1
    /\ evaluated = {}
    /\ listed = {}
    /\ run = 1
    /\ prev = NoPrev
    /\ call = NoCall
    /\ cli = NoCli

\* lines 103-110: the patterns of the run
ReadPatterns ==
    /\ pc = "start"
    /\ ignore_patterns' =
           IF args.tarignore_path # "" /\ tarignore.exists
           THEN read_tarignore(tarignore)
           ELSE <<>>
    /\ pc' = "collect"
    /\ UNCHANGED <<fs, tarignore, args, stack, files_to_include, to_write, archive,
                   exit_code, evaluated, listed, run, prev, call, cli>>

\* collect_files, lines 71-73: the source is not a directory
CollectNotADirectory ==
    /\ pc = "collect"
    /\ ~isdir(args.source_dir)
    /\ pc' = "exited"
    /\ exit_code' = 1
    /\ UNCHANGED <<fs, tarignore, args, ignore_patterns, stack, files_to_include,
                   to_write, archive, evaluated, listed, run, prev, call, cli>>

\* collect_files without the os.path.isdir test of line 71: a regular file
\* is collected as it is, a missing path yields an empty walk
CollectStart_nocheck ==
    /\ pc = "collect"
    /\ stack' = IF isdir(args.source_dir) THEN <<args.source_dir>> ELSE <<>>
    /\ files_to_include' = IF isfile(args.source_dir) THEN {args.source_dir} ELSE {}
    /\ pc' = "walk"
    /\ UNCHANGED <<fs, tarignore, args, ignore_patterns, to_write, archive,
                   exit_code, evaluated, listed, run, prev, call, cli>>

\* collect_files, lines 68-75: os.walk starts at the source directory
CollectStart ==
    /\ pc = "collect"
    /\ isdir(args.source_dir)
    /\ stack' = <<args.source_dir>>
    /\ files_to_include' = {}
    /\ pc' = "walk"
    /\ UNCHANGED <<fs, tarignore, args, ignore_patterns, to_write, archive,
                   exit_code, evaluated, listed, run, prev, call, cli>>

\* the orders in which a set of directories can be walked
Orders(S) == {o \in [1..Cardinality(S) -> S] : Range(o) = S}

\* the loop iteration with line 77 filtering a copy of dirs instead of
\* dirs[:]: os.walk then descends into every subdirectory
WalkStep_nopruning ==
    /\ pc = "walk"
    /\ stack # <<>>
    /\ LET root  == Head(stack)
           dirs  == subdirs(root)
           files == subfiles(root)
       IN  /\ \E order \in Orders(dirs) : stack' = order \o Tail(stack)
           /\ files_to_include' = files_to_include \cup
                  {f \in files : ~should_exclude(f, args.source_dir, ignore_patterns)}
           /\ evaluated' = evaluated \cup dirs \cup files
           /\ listed' = listed \cup {root}
    /\ UNCHANGED <<fs, tarignore, args, pc, ignore_patterns, to_write, archive,
                   exit_code, run, prev, call, cli>>

\* lines 75-84, one iteration of the os.walk loop: the next directory is
\* listed, its subdirectories are filtered in place (os.walk descends only
\* into those left, in the order the listing gave them) and its files are
\* filtered into files_to_include
WalkStep ==
    /\ pc = "walk"
    /\ stack # <<>>
    /\ LET root  == Head(stack)
           dirs  == subdirs(root)
           files == subfiles(root)
           kept  == {d \in dirs :
                        ~should_exclude(d, args.source_dir, ignore_patterns)}
       IN  /\ \E order \in Orders(kept) : stack' = order \o Tail(stack)
           /\ files_to_include' = files_to_include \cup
                  {f \in files : ~should_exclude(f, args.source_dir, ignore_patterns)}
           /\ evaluated' = evaluated \cup dirs \cup files
           /\ listed' = listed \cup {root}
    /\ UNCHANGED <<fs, tarignore, args, pc, ignore_patterns, to_write, archive,
                   exit_code, run, prev, call, cli>>

\* lines 86, 113-118: the walk is over, collect_files returns
CollectReturn ==
    /\ pc = "walk"
    /\ stack = <<>>
    /\ pc' = "open"
    /\ UNCHANGED <<fs, tarignore, args, ignore_patterns, stack, files_to_include,
                   to_write, archive, exit_code, evaluated, listed, run, prev,
                   call, cli>>

\* lines 124 and 132: the archive file is created (or truncated) and opened
OpenArchive ==
    /\ pc = "open"
    /\ isdir(dirname(args.archive_name))
    /\ ~isdir(args.archive_name)
    /\ fs' = [fs EXCEPT !.files = @ \cup {args.archive_name}]
    /\ archive' = [opened |-> TRUE, closed |-> FALSE,
                   mode |-> IF args.archive_type = "tar" /\ args.compress
                            THEN "w:gz" ELSE "w",
                   entries |-> {}]
    /\ to_write' = files_to_include
    /\ pc' = "write"
    /\ UNCHANGED <<tarignore, args, ignore_patterns, stack, files_to_include,
                   exit_code, evaluated, listed, run, prev, call, cli>>

\* lines 124 and 132: the archive cannot be created; the exception ends the
\* process with status 1
OpenFails ==
    /\ pc = "open"
    /\ ~(isdir(dirname(args.archive_name)) /\ ~isdir(args.archive_name))
    /\ pc' = "failed"
    /\ exit_code' = 1
    /\ UNCHANGED <<fs, tarignore, args, ignore_patterns, stack, files_to_include,
                   to_write, archive, evaluated, listed, run, prev, call, cli>>

\* the archive name taken relative to the source directory itself
arcname_relsource(file_path, source_dir) == relpath(file_path, source_dir)

\* the archive name flattened to the bare filename
arcname_flat(file_path, source_dir) == basename(file_path)

\* lines 127 and 135: the name a file gets in the archive
arcname(file_path, source_dir) == relpath(file_path, dirname(source_dir))

\* lines 125-128: one iteration of the tar loop (a set is iterated in no
\* particular order)
TarAdd ==
    /\ pc = "write"
    /\ args.archive_type = "tar"
    /\ \E file_path \in to_write :
           /\ archive' = [archive EXCEPT !.entries = @ \cup
                  {[src |-> file_path,
                    name |-> arcname(file_path, args.source_dir)]}]
           /\ to_write' = to_write \ {file_path}
    /\ UNCHANGED <<fs, tarignore, args, pc, ignore_patterns, stack,
                   files_to_include, exit_code, evaluated, listed, run, prev,
                   call, cli>>

\* lines 133-136: one iteration of the zip loop
ZipWrite ==
    /\ pc = "write"
    /\ args.archive_type = "zip"
    /\ \E file_path \in to_write :
           /\ archive' = [archive EXCEPT !.entries = @ \cup
                  {[src |-> file_path,
                    name |-> arcname(file_path, args.source_dir)]}]
           /\ to_write' = to_write \ {file_path}
    /\ UNCHANGED <<fs, tarignore, args, pc, ignore_patterns, stack,
                   files_to_include, exit_code, evaluated, listed, run, prev,
                   call, cli>>

\* the with block ends, line 139; main returns, exit status 0
CloseArchive ==
    /\ pc = "write"
    /\ to_write = {}
    /\ archive' = [archive EXCEPT !.closed = TRUE]
    /\ pc' = "done"
    /\ exit_code' = 0
    /\ UNCHANGED <<fs, tarignore, args, ignore_patterns, stack, files_to_include,
                   to_write, evaluated, listed, run, prev, call, cli>>

\* the program is run a second time with the same arguments, on the
\* filesystem the first run left
RunAgain ==
    /\ pc = "done"
    /\ run = 1
    /\ prev' = [files |-> files_to_include, entries |-> archive.entries]
    /\ run' = 2
    /\ pc' = "start"
    /\ ignore_patterns' = <<>>
    /\ stack' = <<>>
    /\ files_to_include' = {}
    /\ to_write' = {}
    /\ archive' = NoArchive
    /\ exit_code' = -1
    /\ evaluated' = {}
    /\ listed' = {}
    /\ UNCHANGED <<fs, tarignore, args, call, cli>>

Next ==
    \/ ReadPatterns
    \/ CollectNotADirectory
    \/ CollectStart
    \/ WalkStep
    \/ CollectReturn
    \/ OpenArchive
    \/ OpenFails
    \/ TarAdd
    \/ ZipWrite
    \/ CloseArchive
    \/ RunAgain

Spec == Init /\ [][Next]_vars

----------------------------------------------------------------------------
(* Properties of the runs *)

Terminal == {"done", "exited", "failed"}

\* the '/'-separated segments of a string
RECURSIVE segments(_)
segments(str) ==
    IF "/" \notin Range(str) THEN <<str>>
    ELSE LET k == CHOOSE i \in 1..Len(str) :
                      str[i] = "/" /\ \A j \in 1..(i - 1) : str[j] # "/"
         IN  <<SubSeq(str, 1, k - 1)>> \o segments(SubSeq(str, k + 1, Len(str)))

\* every path of the filesystem
AllPaths == fs.dirs \cup fs.files

\* the directories the walk tested and found excluded
ExcludedDirs ==
    {d \in evaluated \cap fs.dirs :
        should_exclude(d, args.source_dir, ignore_patterns)}

\* C2: if should_exclude is true for a directory d that collect_files
\* reaches, no file beneath d, at any depth, is in the collected set (nor
\* written to the archive), and collect_files neither lists d nor evaluates
\* or lists anything beneath d.
C2_ExcludedDirectoryIsPruned ==
    \A d \in ExcludedDirs :
        /\ d \notin listed
        /\ d \notin Range(stack)
        /\ \A p \in AllPaths :
               beneath(p, d) =>
                   /\ p \notin files_to_include
                   /\ p \notin evaluated
                   /\ p \notin listed
                   /\ p \notin {e.src : e \in archive.entries}

\* a finished run that excluded a directory holding, two levels down, a
\* file that matches no pattern itself, and that collected other files
C2_Witness ==
    /\ pc = "done"
    /\ <<T, X>> \in ExcludedDirs
    /\ ~should_exclude(<<T, X, Y, C>>, args.source_dir, ignore_patterns)
    /\ files_to_include # {}

C4_ZipNamesRelativeToSource ==
    (pc = "done" /\ args.archive_type = "zip") =>
        LET namelist == {e.name : e \in archive.entries}
        IN  /\ \A f \in files_to_include :
                   relpath(f, args.source_dir) \in namelist
            /\ \A f \in evaluated \ files_to_include :
                   relpath(f, args.source_dir) \notin namelist

\* what the ignore file yields: its stripped lines, in file order, without
\* those that are empty or start with '#'
StrippedLines == [i \in 1..Len(tarignore.lines) |-> strip(tarignore.lines[i])]

IsPatternLine(l) == l # <<>> /\ l[1] # "#"

\* C5: read_tarignore returns, in file order and without deduplication,
\* the stripped lines that are non-empty and do not start with '#'; for a
\* path that does not exist it returns the empty list, and create_archive
\* then proceeds and excludes no file.
C5_ReadTarignore ==
    /\ (pc # "start" /\ args.tarignore_path # "") =>
           ignore_patterns = IF tarignore.exists
                             THEN SelectSeq(StrippedLines, IsPatternLine)
                             ELSE <<>>
    /\ (pc = "done" /\ args.tarignore_path # "" /\ ~tarignore.exists) =>
           /\ exit_code = 0
           /\ {f \in TreeFiles : beneath(f, args.source_dir)} \subseteq files_to_include
           /\ evaluated \subseteq files_to_include \cup listed
           /\ files_to_include = {e.src : e \in archive.entries}

\* a run whose ignore file holds a line that strips to a comment and a
\* pattern given twice, and a finished run without an ignore file
C5_WitnessParsed ==
    /\ pc = "done"
    /\ tarignore.exists
    /\ Len(tarignore.lines) = 2
    /\ Len(ignore_patterns) = 1
    /\ tarignore.lines[1] = <<" ", "#", "\n">>

C7_MissingSourceAbortsBeforeOpen ==
    ~exists(args.source_dir) =>
        /\ ~archive.opened
        /\ archive.entries = {}
        /\ ~exists(args.archive_name)
        /\ pc \in {"start", "collect", "exited"}
        /\ (pc = "exited" => exit_code = 1)
        /\ (pc # "exited" => exit_code = -1)

\* the run on the missing path /n, with an output path that could have
\* been created, has ended
C7_Witness ==
    /\ args.source_dir = <<N>>
    /\ ~exists(args.source_dir)
    /\ isdir(dirname(args.archive_name))
    /\ pc = "exited"

\* C8: within one run the archive names of distinct collected files are
\* distinct, and no archive name begins with a separator or has a '..'
\* segment.
C8_ArchiveNamesDistinctAndSafe ==
    /\ \A e1, e2 \in archive.entries : e1.src # e2.src => e1.name # e2.name
    /\ \A e \in archive.entries :
           /\ e.name # <<>>
           /\ Head(e.name) # "/"
           /\ <<".", ".">> \notin Range(segments(e.name))
           /\ e.src \in files_to_include

\* a finished run that archived two files with the same filename
C8_Witness ==
    /\ pc = "done"
    /\ \E e1, e2 \in archive.entries :
           e1.src # e2.src /\ basename(e1.src) = basename(e2.src)

\* C9 (as claimed): the second of two successive runs with the same
\* arguments collects the same files and writes the same archive names as
\* the first, wherever the output path lies.
C9_SecondRunSameAsFirst ==
    (run = 2 /\ pc = "done") =>
        /\ files_to_include = prev.files
        /\ {e.name : e \in archive.entries} = {e.name : e \in prev.entries}

----------------------------------------------------------------------------
(* SpecMain: the output name main passes to create_archive                 *)

DotTar == <<".", "t", "a", "r">>
DotTarGz == <<".", "t", "a", "r", ".", "g", "z">>
DotTgz == <<".", "t", "g", "z">>
DotZip == <<".", "z", "i", "p">>

\* lines 159-166: "Add extension if not provided"
output_name(output, format, compress) ==
    IF format = "tar"
    THEN IF compress /\ ~(endswith(output, DotTarGz) \/ endswith(output, DotTgz))
         THEN output \o DotTarGz
         ELSE IF ~endswith(output, DotTar)
              THEN output \o DotTar
              ELSE output
    ELSE IF format = "zip" /\ ~endswith(output, DotZip)
         THEN output \o DotZip
         ELSE output

\* the output names given on the command line: up to MaxPieces of these
\* pieces, one after the other
Pieces == {<<"a">>, DotTar, <<".", "g", "z">>, DotTgz, DotZip}

RECURSIVE concat(_)
concat(ps) == IF ps = <<>> THEN <<>> ELSE Head(ps) \o concat(Tail(ps))

OutputNames == {concat(ps) : ps \in SeqsUpTo(Pieces, MaxPieces)}

InitMain ==
    /\ RunIdle
    /\ call = NoCall
    /\ cli \in [output : OutputNames, format : {"tar", "zip"}, compress : BOOLEAN,
                passed : {<<>>}, times : {0}]

\* lines 157-174: main computes the name and calls create_archive with it
MainPassesName ==
    /\ cli.times = 0
    /\ cli' = [cli EXCEPT !.passed = output_name(cli.output, cli.format, cli.compress),
                          !.times = 1]
    /\ UNCHANGED <<runVars, call>>

\* main is invoked again, with the name it passed on as the output name
MainOnItsOwnResult ==
    /\ cli.times = 1
    /\ cli' = [cli EXCEPT !.output = cli.passed,
                          !.passed = output_name(cli.passed, cli.format, cli.compress),
                          !.times = 2]
    /\ UNCHANGED <<runVars, call>>

NextMain == MainPassesName \/ MainOnItsOwnResult

SpecMain == InitMain /\ [][NextMain]_vars

\* the suffix the chosen format expects, and the one that is appended
HasExpectedSuffix(name, format, compress) ==
    IF format = "zip" THEN endswith(name, DotZip)
    ELSE IF compress THEN endswith(name, DotTarGz) \/ endswith(name, DotTgz)
    ELSE endswith(name, DotTar)

Extension(format, compress) ==
    IF format = "zip" THEN DotZip ELSE IF compress THEN DotTarGz ELSE DotTar

\* C10 (as claimed): main appends the format's extension exactly when the
\* output name lacks the expected suffix ('.tar'; '.tar.gz' or '.tgz' when
\* compressed; '.zip'); a name that has it is passed on unchanged, so that
\* the rule applied to its own result changes nothing.
C10_ExtensionAppendedIffMissing ==
    /\ cli.times = 1 =>
           cli.passed = IF HasExpectedSuffix(cli.output, cli.format, cli.compress)
                        THEN cli.output
                        ELSE cli.output \o Extension(cli.format, cli.compress)
    /\ cli.times = 2 => cli.passed = cli.output

====
